---- MODULE Spec2Model ----
(***************************************************************************)
(* A model of scale_builder.py: the interpreter validate_user_input, the   *)
(* derivation engine create_scale / modify_note / raise_note / lower_note, *)
(* the formatter prep_scale_for_display / get_user_friendly_result and the *)
(* request loop get_user_input.                                            *)
(*                                                                         *)
(* A Python string is a sequence of one-character strings, so that         *)
(* slicing, searching, counting and substitution are computed character by *)
(* character, as Python computes them.  Python's False (the interpreter's  *)
(* rejection) and None (an absent modifier) are both the empty sequence:   *)
(* neither is ever confused with a value, since an accepted request has    *)
(* three elements and a present modifier has at least one character.       *)
(***************************************************************************)
EXTENDS Integers, Sequences, FiniteSets, TLC

VARIABLES
    pc,              \* position of the program: see the actions
    user_input,      \* get_user_input: the lower-cased line that was read
    scale_elements,  \* get_user_input: what validate_user_input returned
    scale,           \* create_scale: the list of notes before formatting
    prepared_scale,  \* create_scale: the string prep_scale_for_display returned
    output,          \* the line get_user_input printed
    note,            \* modify_note: the note passed in
    modifier,        \* modify_note: the modifier passed in
    new_note,        \* raise_note / lower_note: raised_note / lowered_note
    direction,       \* which of raise_note / lower_note is running
    remaining,       \* raise_note / lower_note: iterations of the loop left
    calls,           \* how many of raise_note / lower_note ran on this note
    definitions_majors,            \* the dict definitions.majors
    definitions_mode_definitions,  \* the dict definitions.mode_definitions
    first_results    \* history: for each line processed so far, what it gave
                     \* the first time

vars == << pc, user_input, scale_elements, scale, prepared_scale, output,
           note, modifier, new_note, direction, remaining, calls,
           definitions_majors, definitions_mode_definitions, first_results >>

(***************************************************************************)
(* Bounds of the model.                                                    *)
(***************************************************************************)
\* longest run of spaces between the words of a typed line
MaxSpaces == 2
\* most '+' or '-' marks on a note handed to modify_note directly
MaxMarks == 2
\* longest modifier handed to modify_note directly
MaxSemitones == 3
\* longest list handed to prep_scale_for_display directly
MaxNotes == 2

False == << >>
None == << >>

(***************************************************************************)
(* Python's string operations.                                             *)
(***************************************************************************)
ascii_lowercase ==
    << "a","b","c","d","e","f","g","h","i","j","k","l","m",
       "n","o","p","q","r","s","t","u","v","w","x","y","z" >>
ascii_uppercase ==
    << "A","B","C","D","E","F","G","H","I","J","K","L","M",
       "N","O","P","Q","R","S","T","U","V","W","X","Y","Z" >>
digits == << "0","1","2","3","4","5","6","7","8","9" >>

\* position of character c in alphabet, 0 when it is not there
IndexOf(c, alphabet) ==
    IF \E i \in 1..Len(alphabet) : alphabet[i] = c
    THEN CHOOSE i \in 1..Len(alphabet) : alphabet[i] = c
    ELSE 0

UpperChar(c) ==
    IF IndexOf(c, ascii_lowercase) > 0
    THEN ascii_uppercase[IndexOf(c, ascii_lowercase)] ELSE c
LowerChar(c) ==
    IF IndexOf(c, ascii_uppercase) > 0
    THEN ascii_lowercase[IndexOf(c, ascii_uppercase)] ELSE c
IsCased(c) == IndexOf(c, ascii_lowercase) > 0 \/ IndexOf(c, ascii_uppercase) > 0

\* str.upper
RECURSIVE Upper(_)
Upper(s) == IF s = << >> THEN << >> ELSE << UpperChar(Head(s)) >> \o Upper(Tail(s))
\* str.lower
RECURSIVE Lower(_)
Lower(s) == IF s = << >> THEN << >> ELSE << LowerChar(Head(s)) >> \o Lower(Tail(s))

\* str.title: a cased character is upper-cased when it follows an uncased
\* character (or starts the string) and lower-cased otherwise
RECURSIVE TitleFrom(_, _)
TitleFrom(s, i) ==
    IF i > Len(s) THEN << >>
    ELSE << IF ~IsCased(s[i]) THEN s[i]
            ELSE IF i > 1 /\ IsCased(s[i-1]) THEN LowerChar(s[i])
            ELSE UpperChar(s[i]) >> \o TitleFrom(s, i + 1)
Title(s) == TitleFrom(s, 1)

\* s[k:] and s[:k] for k >= 0, s[:-k] for k > 0
SliceFrom(s, k) == SubSeq(s, k + 1, Len(s))
SliceTo(s, k) == SubSeq(s, 1, IF k < Len(s) THEN k ELSE Len(s))
DropLast(s, k) == SubSeq(s, 1, Len(s) - k)

\* sub occurs in s at position i (1-based)
OccursAt(s, sub, i) ==
    /\ i + Len(sub) - 1 <= Len(s)
    /\ SubSeq(s, i, i + Len(sub) - 1) = sub
\* sub in s
In(sub, s) == \E i \in 1..Len(s) : OccursAt(s, sub, i)

\* str.count: occurrences that do not overlap, scanning from the left
RECURSIVE CountFrom(_, _, _)
CountFrom(s, sub, i) ==
    IF i > Len(s) THEN 0
    ELSE IF OccursAt(s, sub, i) THEN 1 + CountFrom(s, sub, i + Len(sub))
    ELSE CountFrom(s, sub, i + 1)
Count(s, sub) == CountFrom(s, sub, 1)

\* re.match of a literal pattern: the pattern is a prefix of s
ReMatch(pattern, s) == OccursAt(s, pattern, 1)

\* re.sub of a literal pattern: every occurrence, scanning from the left
RECURSIVE SubFrom(_, _, _, _)
SubFrom(pattern, repl, s, i) ==
    IF i > Len(s) THEN << >>
    ELSE IF OccursAt(s, pattern, i)
         THEN repl \o SubFrom(pattern, repl, s, i + Len(pattern))
    ELSE << s[i] >> \o SubFrom(pattern, repl, s, i + 1)
ReSub(pattern, repl, s) == SubFrom(pattern, repl, s, 1)

\* str.strip
RECURSIVE LStrip(_)
LStrip(s) == IF s # << >> /\ Head(s) = " " THEN LStrip(Tail(s)) ELSE s
RECURSIVE RStrip(_)
RStrip(s) == IF s # << >> /\ s[Len(s)] = " " THEN RStrip(DropLast(s, 1)) ELSE s
Strip(s) == RStrip(LStrip(s))

\* str.split(): the words of s, split at runs of whitespace
RECURSIVE SplitFrom(_, _, _)
SplitFrom(s, words, word) ==
    IF s = << >> THEN (IF word = << >> THEN words ELSE Append(words, word))
    ELSE IF Head(s) = " "
         THEN SplitFrom(Tail(s),
                        IF word = << >> THEN words ELSE Append(words, word),
                        << >>)
    ELSE SplitFrom(Tail(s), words, Append(word, Head(s)))
Split(s) == SplitFrom(s, << >>, << >>)

\* sep.join(words)
RECURSIVE Join(_, _)
Join(sep, words) ==
    IF words = << >> THEN << >>
    ELSE IF Len(words) = 1 THEN words[1]
    ELSE words[1] \o sep \o Join(sep, Tail(words))

\* int(c) for a digit character
PyInt(c) == IndexOf(c, digits) - 1

\* a dict as a sequence of <<key, value>> pairs: key in dict, dict.get(key)
HasKey(dict, key) == \E i \in 1..Len(dict) : dict[i][1] = key
Get(dict, key) ==
    IF HasKey(dict, key)
    THEN dict[CHOOSE i \in 1..Len(dict) : dict[i][1] = key][2]
    ELSE None
Keys(dict) == { dict[i][1] : i \in 1..Len(dict) }

\* list[i] with Python's negative indexes: whether it succeeds, and its value
HasIndex(list, i) == -Len(list) <= i /\ i < Len(list)
Item(list, i) == IF i >= 0 THEN list[i + 1] ELSE list[Len(list) + i + 1]

(***************************************************************************)
(* The modes show_possible_modes lists, and the tables of the definitions  *)
(* module: mode_definitions (mode: the degrees of the major scale it is    *)
(* made of, each with an optional modifier) and majors (root: its major    *)
(* scale).  The two tables are written out from their description: a mode  *)
(* definition for every listed mode, with degrees 1-7, and a major scale   *)
(* of seven notes for every root a-g with '', '+' or '-'.                  *)
(***************************************************************************)
possible_modes ==
    << <<"A","c","o","u","s","t","i","c">>,
       <<"A","e","o","l","i","a","n">>,
       <<"A","l","g","e","r","i","a","n">>,
       <<"A","l","t","e","r","e","d">>,
       <<"A","u","g","m","e","n","t","e","d">>,
       <<"B","e","b","o","p"," ","d","o","m","i","n","a","n","t">>,
       <<"B","l","u","e","s">>,
       <<"C","h","r","o","m","a","t","i","c">>,
       <<"D","o","r","i","a","n">>,
       <<"D","o","u","b","l","e"," ","H","a","r","m","o","n","i","c">>,
       <<"E","n","i","g","m","a","t","i","c">>,
       <<"F","l","a","m","e","n","c","o">>,
       <<"G","y","p","s","y">>,
       <<"H","a","l","f"," ","D","i","m","i","n","i","s","h","e","d">>,
       <<"H","a","r","m","o","n","i","c"," ","M","a","j","o","r">>,
       <<"H","a","r","m","o","n","i","c"," ","M","i","n","o","r">>,
       <<"H","u","n","g","a","r","i","a","n">>,
       <<"I","n","s","e","n">>,
       <<"I","o","n","i","a","n">>,
       <<"I","s","t","r","i","a","n">>,
       <<"I","w","a","t","o">>,
       <<"L","o","c","r","i","a","n">>,
       <<"L","y","d","i","a","n"," ","A","u","g","m","e","n","t","e","d">>,
       <<"L","y","d","i","a","n">>,
       <<"M","a","j","o","r">>,
       <<"M","a","j","o","r"," ","B","e","b","o","p">>,
       <<"M","a","j","o","r"," ","L","o","c","r","i","a","n">>,
       <<"M","a","j","o","r"," ","P","e","n","t","a","t","o","n","i","c">>,
       <<"M","e","l","o","d","i","c"," ","M","i","n","o","r">>,
       <<"M","i","n","o","r"," ","P","e","n","t","a","t","o","n","i","c">>,
       <<"M","i","x","o","l","y","d","i","a","n">>,
       <<"M","e","l","o","d","i","c"," ","M","i","n","o","r">>,
       <<"N","e","a","p","o","l","i","t","a","n"," ","M","a","j","o","r">>,
       <<"N","e","a","p","o","l","i","t","a","n"," ","M","i","n","o","r">>,
       <<"P","e","r","s","i","a","n">>,
       <<"P","h","r","y","g","i","a","n"," ","D","o","m","i","n","a","n","t">>,
       <<"P","h","r","y","g","i","a","n">>,
       <<"P","r","o","m","e","t","h","e","u","s">>,
       <<"T","r","i","t","o","n","e">>,
       <<"W","h","o","l","e","t","o","n","e">> >>

mode_definitions ==
    << << <<"a","c","o","u","s","t","i","c">>,
          << <<"1">>, <<"2">>, <<"3">>, <<"4","+">>, <<"5">>, <<"6">>, <<"7","-">> >> >>,
       << <<"a","e","o","l","i","a","n">>,
          << <<"1">>, <<"2">>, <<"3","-">>, <<"4">>, <<"5">>, <<"6","-">>, <<"7","-">> >> >>,
       << <<"a","l","g","e","r","i","a","n">>,
          << <<"1">>, <<"2">>, <<"3","-">>, <<"4","+">>, <<"5">>, <<"6","-">>, <<"7">> >> >>,
       << <<"a","l","t","e","r","e","d">>,
          << <<"1">>, <<"2","-">>, <<"3","-">>, <<"4","-">>, <<"5","-">>, <<"6","-">>, <<"7","-">> >> >>,
       << <<"a","u","g","m","e","n","t","e","d">>,
          << <<"1">>, <<"3","-">>, <<"3">>, <<"5">>, <<"5","+">>, <<"7">> >> >>,
       << <<"b","e","b","o","p"," ","d","o","m","i","n","a","n","t">>,
          << <<"1">>, <<"2">>, <<"3">>, <<"4">>, <<"5">>, <<"6">>, <<"7","-">>, <<"7">> >> >>,
       << <<"b","l","u","e","s">>,
          << <<"1">>, <<"3","-">>, <<"4">>, <<"5","-">>, <<"5">>, <<"7","-">> >> >>,
       << <<"c","h","r","o","m","a","t","i","c">>,
          << <<"1">>, <<"1","+">>, <<"2">>, <<"2","+">>, <<"3">>, <<"4">>, <<"4","+">>, <<"5">>, <<"5","+">>, <<"6">>, <<"6","+">>, <<"7">> >> >>,
       << <<"d","o","r","i","a","n">>,
          << <<"1">>, <<"2">>, <<"3","-">>, <<"4">>, <<"5">>, <<"6">>, <<"7","-">> >> >>,
       << <<"d","o","u","b","l","e"," ","h","a","r","m","o","n","i","c">>,
          << <<"1">>, <<"2","-">>, <<"3">>, <<"4">>, <<"5">>, <<"6","-">>, <<"7">> >> >>,
       << <<"e","n","i","g","m","a","t","i","c">>,
          << <<"1">>, <<"2","-">>, <<"3">>, <<"4","+">>, <<"5","+">>, <<"6","+">>, <<"7">> >> >>,
       << <<"f","l","a","m","e","n","c","o">>,
          << <<"1">>, <<"2","-">>, <<"3">>, <<"4">>, <<"5">>, <<"6","-">>, <<"7">> >> >>,
       << <<"g","y","p","s","y">>,
          << <<"1">>, <<"2">>, <<"3","-">>, <<"4","+">>, <<"5">>, <<"6","-">>, <<"7","-">> >> >>,
       << <<"h","a","l","f"," ","d","i","m","i","n","i","s","h","e","d">>,
          << <<"1">>, <<"2">>, <<"3","-">>, <<"4">>, <<"5","-">>, <<"6","-">>, <<"7","-">> >> >>,
       << <<"h","a","r","m","o","n","i","c"," ","m","a","j","o","r">>,
          << <<"1">>, <<"2">>, <<"3">>, <<"4">>, <<"5">>, <<"6","-">>, <<"7">> >> >>,
       << <<"h","a","r","m","o","n","i","c"," ","m","i","n","o","r">>,
          << <<"1">>, <<"2">>, <<"3","-">>, <<"4">>, <<"5">>, <<"6","-">>, <<"7">> >> >>,
       << <<"h","u","n","g","a","r","i","a","n">>,
          << <<"1">>, <<"2">>, <<"3","-">>, <<"4","+">>, <<"5">>, <<"6","-">>, <<"7">> >> >>,
       << <<"i","n","s","e","n">>,
          << <<"1">>, <<"2","-">>, <<"4">>, <<"5">>, <<"7","-">> >> >>,
       << <<"i","o","n","i","a","n">>,
          << <<"1">>, <<"2">>, <<"3">>, <<"4">>, <<"5">>, <<"6">>, <<"7">> >> >>,
       << <<"i","s","t","r","i","a","n">>,
          << <<"1">>, <<"2","-">>, <<"3","-">>, <<"4","-">>, <<"5","-">>, <<"5">> >> >>,
       << <<"i","w","a","t","o">>,
          << <<"1">>, <<"2","-">>, <<"4">>, <<"5","-">>, <<"7","-">> >> >>,
       << <<"l","o","c","r","i","a","n">>,
          << <<"1">>, <<"2","-">>, <<"3","-">>, <<"4">>, <<"5","-">>, <<"6","-">>, <<"7","-">> >> >>,
       << <<"l","y","d","i","a","n"," ","a","u","g","m","e","n","t","e","d">>,
          << <<"1">>, <<"2">>, <<"3">>, <<"4","+">>, <<"5","+">>, <<"6">>, <<"7">> >> >>,
       << <<"l","y","d","i","a","n">>,
          << <<"1">>, <<"2">>, <<"3">>, <<"4","+">>, <<"5">>, <<"6">>, <<"7">> >> >>,
       << <<"m","a","j","o","r">>,
          << <<"1">>, <<"2">>, <<"3">>, <<"4">>, <<"5">>, <<"6">>, <<"7">> >> >>,
       << <<"m","a","j","o","r"," ","b","e","b","o","p">>,
          << <<"1">>, <<"2">>, <<"3">>, <<"4">>, <<"5">>, <<"5","+">>, <<"6">>, <<"7">> >> >>,
       << <<"m","a","j","o","r"," ","l","o","c","r","i","a","n">>,
          << <<"1">>, <<"2">>, <<"3">>, <<"4">>, <<"5","-">>, <<"6","-">>, <<"7","-">> >> >>,
       << <<"m","a","j","o","r"," ","p","e","n","t","a","t","o","n","i","c">>,
          << <<"1">>, <<"2">>, <<"3">>, <<"5">>, <<"6">> >> >>,
       << <<"m","e","l","o","d","i","c"," ","m","i","n","o","r">>,
          << <<"1">>, <<"2">>, <<"3","-">>, <<"4">>, <<"5">>, <<"6">>, <<"7">>, <<"1">>, <<"7","-">>, <<"6","-">>, <<"5">>, <<"4">>, <<"3","-">>, <<"2">> >> >>,
       << <<"m","i","n","o","r"," ","p","e","n","t","a","t","o","n","i","c">>,
          << <<"1">>, <<"3","-">>, <<"4">>, <<"5">>, <<"7","-">> >> >>,
       << <<"m","i","x","o","l","y","d","i","a","n">>,
          << <<"1">>, <<"2">>, <<"3">>, <<"4">>, <<"5">>, <<"6">>, <<"7","-">> >> >>,
       << <<"n","e","a","p","o","l","i","t","a","n"," ","m","a","j","o","r">>,
          << <<"1">>, <<"2","-">>, <<"3","-">>, <<"4">>, <<"5">>, <<"6">>, <<"7">> >> >>,
       << <<"n","e","a","p","o","l","i","t","a","n"," ","m","i","n","o","r">>,
          << <<"1">>, <<"2","-">>, <<"3","-">>, <<"4">>, <<"5">>, <<"6","-">>, <<"7">> >> >>,
       << <<"p","e","r","s","i","a","n">>,
          << <<"1">>, <<"2","-">>, <<"3">>, <<"4">>, <<"5","-">>, <<"6","-">>, <<"7">> >> >>,
       << <<"p","h","r","y","g","i","a","n"," ","d","o","m","i","n","a","n","t">>,
          << <<"1">>, <<"2","-">>, <<"3">>, <<"4">>, <<"5">>, <<"6","-">>, <<"7","-">> >> >>,
       << <<"p","h","r","y","g","i","a","n">>,
          << <<"1">>, <<"2","-">>, <<"3","-">>, <<"4">>, <<"5">>, <<"6","-">>, <<"7","-">> >> >>,
       << <<"p","r","o","m","e","t","h","e","u","s">>,
          << <<"1">>, <<"2">>, <<"3">>, <<"4","+">>, <<"6">>, <<"7","-">> >> >>,
       << <<"t","r","i","t","o","n","e">>,
          << <<"1">>, <<"2","-">>, <<"3">>, <<"5","-">>, <<"5">>, <<"7","-">> >> >>,
       << <<"w","h","o","l","e","t","o","n","e">>,
          << <<"1">>, <<"2">>, <<"3">>, <<"4","+">>, <<"5","+">>, <<"6","+">> >> >> >>

majors ==
    << << <<"c">>, << <<"c">>, <<"d">>, <<"e">>, <<"f">>, <<"g">>, <<"a">>, <<"b">> >> >>,
       << <<"c","+">>, << <<"c","+">>, <<"d","+">>, <<"e","+">>, <<"f","+">>, <<"g","+">>, <<"a","+">>, <<"b","+">> >> >>,
       << <<"c","-">>, << <<"c","-">>, <<"d","-">>, <<"e","-">>, <<"f","-">>, <<"g","-">>, <<"a","-">>, <<"b","-">> >> >>,
       << <<"d">>, << <<"d">>, <<"e">>, <<"f","+">>, <<"g">>, <<"a">>, <<"b">>, <<"c","+">> >> >>,
       << <<"d","+">>, << <<"d","+">>, <<"e","+">>, <<"f","+","+">>, <<"g","+">>, <<"a","+">>, <<"b","+">>, <<"c","+","+">> >> >>,
       << <<"d","-">>, << <<"d","-">>, <<"e","-">>, <<"f">>, <<"g","-">>, <<"a","-">>, <<"b","-">>, <<"c">> >> >>,
       << <<"e">>, << <<"e">>, <<"f","+">>, <<"g","+">>, <<"a">>, <<"b">>, <<"c","+">>, <<"d","+">> >> >>,
       << <<"e","+">>, << <<"e","+">>, <<"f","+","+">>, <<"g","+","+">>, <<"a","+">>, <<"b","+">>, <<"c","+","+">>, <<"d","+","+">> >> >>,
       << <<"e","-">>, << <<"e","-">>, <<"f">>, <<"g">>, <<"a","-">>, <<"b","-">>, <<"c">>, <<"d">> >> >>,
       << <<"f">>, << <<"f">>, <<"g">>, <<"a">>, <<"b","-">>, <<"c">>, <<"d">>, <<"e">> >> >>,
       << <<"f","+">>, << <<"f","+">>, <<"g","+">>, <<"a","+">>, <<"b">>, <<"c","+">>, <<"d","+">>, <<"e","+">> >> >>,
       << <<"f","-">>, << <<"f","-">>, <<"g","-">>, <<"a","-">>, <<"b","-","-">>, <<"c","-">>, <<"d","-">>, <<"e","-">> >> >>,
       << <<"g">>, << <<"g">>, <<"a">>, <<"b">>, <<"c">>, <<"d">>, <<"e">>, <<"f","+">> >> >>,
       << <<"g","+">>, << <<"g","+">>, <<"a","+">>, <<"b","+">>, <<"c","+">>, <<"d","+">>, <<"e","+">>, <<"f","+","+">> >> >>,
       << <<"g","-">>, << <<"g","-">>, <<"a","-">>, <<"b","-">>, <<"c","-">>, <<"d","-">>, <<"e","-">>, <<"f">> >> >>,
       << <<"a">>, << <<"a">>, <<"b">>, <<"c","+">>, <<"d">>, <<"e">>, <<"f","+">>, <<"g","+">> >> >>,
       << <<"a","+">>, << <<"a","+">>, <<"b","+">>, <<"c","+","+">>, <<"d","+">>, <<"e","+">>, <<"f","+","+">>, <<"g","+","+">> >> >>,
       << <<"a","-">>, << <<"a","-">>, <<"b","-">>, <<"c">>, <<"d","-">>, <<"e","-">>, <<"f">>, <<"g">> >> >>,
       << <<"b">>, << <<"b">>, <<"c","+">>, <<"d","+">>, <<"e">>, <<"f","+">>, <<"g","+">>, <<"a","+">> >> >>,
       << <<"b","+">>, << <<"b","+">>, <<"c","+","+">>, <<"d","+","+">>, <<"e","+">>, <<"f","+","+">>, <<"g","+","+">>, <<"a","+","+">> >> >>,
       << <<"b","-">>, << <<"b","-">>, <<"c">>, <<"d">>, <<"e","-">>, <<"f">>, <<"g">>, <<"a">> >> >> >>

\* the lines the tests and the instructions give
test_fixtures ==
    { <<"C","#"," ","M","i","n","o","r">>,
      <<"B"," ","b"," ","M","a","j","o","r">>,
      <<"C","+"," ","m","i","n","o","r">>,
      <<"c","m","a","j","o","r">>,
      <<"B","f","l","a","t","m","i","n","o","r">>,
      <<"F","s","h","a","r","p"," ","m","i","n","o","r">>,
      <<"s","c","a","l","e"," ","c"," ","m","i","n","o","r">>,
      <<"A","e","o","l","i","a","n"," ","o","n"," ","A">>,
      <<"a"," ","s","h","a","r","p","s","h","a","r","p"," ","m","a","j","o","r">>,
      <<"b"," ","f","l","a","t","f","l","a","t"," ","m","a","j","o","r">>,
      <<"d"," ","f","l","a","t","s","h","a","r","p"," ","m","a","j","o","r">>,
      <<"f"," ","s","h","a","r","p","f","l","a","t"," ","m","a","j","o","r">>,
      <<"a"," ","f","l","a","t"," ","s","h","a","r","p"," ","m","i","n","o","r">>,
      <<"a"," ","f","l","a","t"," "," "," "," ","s","h","a","r","p"," ","m","i","n","o","r">>,
      <<"f"," ","s","h","a","r","p"," ","s","h","a","r","p"," ","m","a","j","o","r">>,
      <<"1">>,
      <<"-","1">>,
      <<"'","c"," ","m","a","j","o","r","'">>,
      <<"'","1","2","3","4","5","'">>,
      <<"*","*","*","*","*","*">>,
      <<"c"," ","s","h","a","r","p"," ","l","y","d","i","a","n"," ","a","u","g","m","e","n","t","e","d">>,
      <<"c"," ","m","a","j","o","r">>,
      <<"f"," ","s","h","a","r","p"," ","l","o","c","r","i","a","n">>,
      <<"b"," ","m","e","l","o","d","i","c"," ","m","i","n","o","r">>,
      <<"f"," ","s","h","a","r","p"," ","m","i","x","o","l","y","d","i","a","n">>,
      <<"g"," ","m","i","n","o","r">>,
      <<"e"," ","m","a","j","o","r">>,
      <<"e"," ","s","h","a","r","p"," ","m","i","n","o","r">>,
      <<"e"," ","f","l","a","t"," ","m","i","n","o","r">>,
      <<"s","h","o","w"," ","m","o","d","e","s">>,
      <<"S","h","o","w"," ","M","o","d","e","s">>,
      <<"F"," ","S","h","a","r","p"," ","H","a","r","m","o","n","i","c"," ","M","i","n","o","r">>,
      <<"B"," ","F","l","a","t"," ","M","a","j","o","r">> }

(***************************************************************************)
(* validate_user_input                                                     *)
(***************************************************************************)
sharp == << "s","h","a","r","p" >>
flat == << "f","l","a","t" >>
minor == << "m","i","n","o","r" >>
harmonic == << "h","a","r","m","o","n","i","c" >>
melodic == << "m","e","l","o","d","i","c" >>
natural == << "n","a","t","u","r","a","l" >>
harmonic_minor == harmonic \o << " " >> \o minor
root_letters == { "a","b","c","d","e","f","g" }

\* ' '.join(user_input.split())
collapse_whitespace(text) == Join(<< " " >>, Split(text))

\* re.match('([a-g])\\s', user_input[:2])
root_matches(text) ==
    LET two == SliceTo(text, 2)
    IN  Len(two) = 2 /\ two[1] \in root_letters /\ two[2] = " "

\* multiple_modifiers without the check for two different modifier words
multiple_modifiers_same_word(text) ==
    \/ Count(text, sharp) > 1
    \/ Count(text, flat) > 1

\* more than one modifier, "in any combination"
multiple_modifiers(text) ==
    \/ Count(text, sharp) > 1
    \/ Count(text, flat) > 1
    \/ Count(text, sharp \o << " " >> \o flat) > 0
    \/ Count(text, flat \o << " " >> \o sharp) > 0

\* the modifier the text after the root starts with
extract_modifier(rest) ==
    IF ReMatch(sharp, rest) THEN << "+" >>
    ELSE IF ReMatch(flat, rest) THEN << "-" >>
    ELSE << >>

\* the mode: the text after the root with the modifier word taken out
extract_mode(rest) ==
    IF ReMatch(sharp, rest) THEN ReSub(sharp, << >>, rest)
    ELSE IF ReMatch(flat, rest) THEN ReSub(flat, << >>, rest)
    ELSE rest

\* default_minor without the guard for 'natural'
default_minor_unguarded(mode) ==
    IF /\ In(minor, mode)
       /\ ~In(harmonic, mode)
       /\ ~In(melodic, mode)
    THEN harmonic_minor
    ELSE mode

\* just 'minor' is taken to be the harmonic minor
default_minor(mode) ==
    IF /\ In(minor, mode)
       /\ ~In(harmonic, mode)
       /\ ~In(melodic, mode)
       /\ ~In(natural, mode)
    THEN harmonic_minor
    ELSE mode

validate_user_input(text) ==
    LET collapsed == collapse_whitespace(text)
        rest == SliceFrom(collapsed, 2)
        mode == default_minor(Strip(extract_mode(rest)))
    IN  IF ~root_matches(collapsed) THEN False
        ELSE IF multiple_modifiers(collapsed) THEN False
        ELSE IF mode \notin Keys(definitions_mode_definitions) THEN False
        ELSE << << collapsed[1] >>, extract_modifier(rest), mode >>

(***************************************************************************)
(* modify_note, raise_note, lower_note                                     *)
(***************************************************************************)
\* raise_step without the cancellation of a '-' mark
raise_step_append_only(raised_note) == Append(raised_note, "+")

\* one iteration of raise_note's loop
raise_step(raised_note) ==
    IF In(<< "-" >>, raised_note) THEN DropLast(raised_note, 1)
    ELSE Append(raised_note, "+")

\* lower_step that looks for the wrong mark before it trims
lower_step_wrong_mark(lowered_note) ==
    IF In(<< "-" >>, lowered_note) THEN DropLast(lowered_note, 1)
    ELSE Append(lowered_note, "-")

\* one iteration of lower_note's loop
lower_step(lowered_note) ==
    IF In(<< "+" >>, lowered_note) THEN DropLast(lowered_note, 1)
    ELSE Append(lowered_note, "-")

RECURSIVE raise_note(_, _)
raise_note(a_note, num_semitones) ==
    IF num_semitones = 0 THEN a_note
    ELSE raise_note(raise_step(a_note), num_semitones - 1)

RECURSIVE lower_note(_, _)
lower_note(a_note, num_semitones) ==
    IF num_semitones = 0 THEN a_note
    ELSE lower_note(lower_step(a_note), num_semitones - 1)

\* modify_note without the branch that lowers
modify_note_raise_only(a_note, a_modifier) ==
    IF a_modifier = None THEN a_note
    ELSE raise_note(a_note, Len(a_modifier))

modify_note(a_note, a_modifier) ==
    IF a_modifier = None THEN a_note
    ELSE IF In(<< "+" >>, a_modifier) THEN raise_note(a_note, Len(a_modifier))
    ELSE IF In(<< "-" >>, a_modifier) THEN lower_note(a_note, Len(a_modifier))
    ELSE << >>

(***************************************************************************)
(* prep_scale_for_display                                                  *)
(***************************************************************************)
\* the loop body: one note in upper case with its marks as symbols
display_note(a_note) ==
    LET upper == Upper(a_note)
    IN  IF In(<< "-" >>, upper) THEN ReSub(<< "-" >>, << "b" >>, upper)
        ELSE IF In(<< "+" >>, a_note) THEN ReSub(<< "+" >>, << "#" >>, upper)
        ELSE upper

\* ''.join(new_scale), every note followed by ', '
RECURSIVE joined_notes(_)
joined_notes(notes) ==
    IF notes = << >> THEN << >>
    ELSE display_note(Head(notes)) \o << ",", " " >> \o joined_notes(Tail(notes))

\* prep_scale_for_display that keeps the last ', '
prep_scale_untrimmed(notes) == joined_notes(notes)

prep_scale_for_display(notes) == DropLast(joined_notes(notes), 2)

(***************************************************************************)
(* create_scale                                                            *)
(***************************************************************************)
full_root(elements) == elements[1] \o elements[2]

\* degree_index that takes the degree itself as the position
degree_index_one_based(degree_and_modifier) == PyInt(degree_and_modifier[1])

\* the position in the major scale: one less than the degree's digit
degree_index(degree_and_modifier) == PyInt(degree_and_modifier[1]) - 1

degree_modifier(degree_and_modifier) ==
    IF Len(degree_and_modifier) > 1 THEN SliceFrom(degree_and_modifier, 1)
    ELSE None

\* the for loop: one note for every entry of the mode definition
RECURSIVE derived_notes(_, _)
derived_notes(major_scale, mode_definition) ==
    IF mode_definition = << >> THEN << >>
    ELSE << modify_note(Item(major_scale, degree_index(Head(mode_definition))),
                        degree_modifier(Head(mode_definition))) >>
         \o derived_notes(major_scale, Tail(mode_definition))

\* scale_notes without the root added to the end
scale_notes_unclosed(elements) ==
    derived_notes(Get(definitions_majors, full_root(elements)),
                  Get(definitions_mode_definitions, elements[3]))

\* the list `scale` when the function reaches prep_scale_for_display
scale_notes(elements) ==
    LET derived == derived_notes(Get(definitions_majors, full_root(elements)),
                                 Get(definitions_mode_definitions, elements[3]))
    IN  Append(derived, derived[1])

\* create_scale raises: a lookup gave None, or an index is out of range
create_scale_raises(elements) ==
    \/ ~HasKey(definitions_mode_definitions, elements[3])
    \/ ~HasKey(definitions_majors, full_root(elements))
    \/ Get(definitions_mode_definitions, elements[3]) = << >>
    \/ \E k \in 1..Len(Get(definitions_mode_definitions, elements[3])) :
          LET entry == Get(definitions_mode_definitions, elements[3])[k]
          IN  \/ IndexOf(entry[1], digits) = 0
              \/ ~HasIndex(Get(definitions_majors, full_root(elements)),
                           degree_index(entry))

create_scale(elements) == prep_scale_for_display(scale_notes(elements))

\* a dict with the value of one key replaced
Put(dict, key, value) ==
    [ i \in 1..Len(dict) |-> IF dict[i][1] = key THEN << key, value >> ELSE dict[i] ]

\* a list with the items at the positions of the entries replaced by the
\* notes derived for them, one entry after the other
RECURSIVE written_back(_, _, _)
written_back(major_scale, mode_definition, derived) ==
    IF mode_definition = << >> THEN major_scale
    ELSE written_back([ major_scale EXCEPT ![degree_index(Head(mode_definition)) + 1]
                                            = Head(derived) ],
                      Tail(mode_definition), Tail(derived))

\* create_scale that stores every derived note in major_scale, the list of
\* the table, before it adds it to scale
majors_after_write_back(elements) ==
    Put(definitions_majors, full_root(elements),
        written_back(Get(definitions_majors, full_root(elements)),
                     Get(definitions_mode_definitions, elements[3]),
                     scale_notes(elements)))

\* definitions.majors after create_scale: major_scale, the list of the
\* table, is only read; the notes go to the new list scale
majors_after_create_scale(elements) == definitions_majors

\* definitions.mode_definitions after create_scale: the mode definition is
\* only iterated
mode_definitions_after_create_scale(elements) == definitions_mode_definitions

(***************************************************************************)
(* get_user_friendly_result                                                *)
(***************************************************************************)
\* the words sharp or flat replaced with symbols
modifier_symbols(scale_name) ==
    IF In(<< " " >> \o sharp, scale_name)
    THEN ReSub(<< " " >> \o sharp, << "#" >>, scale_name)
    ELSE IF In(<< " " >> \o flat, scale_name)
    THEN ReSub(<< " " >> \o flat, << "b" >>, scale_name)
    ELSE scale_name

\* 'minor' alone is shown as 'harmonic minor'
expand_minor(scale_name) ==
    IF /\ In(minor, scale_name)
       /\ ~In(harmonic, scale_name)
       /\ ~In(melodic, scale_name)
       /\ ~In(natural, scale_name)
    THEN ReSub(minor, harmonic_minor, scale_name)
    ELSE scale_name

get_user_friendly_result(a_scale, scale_name) ==
    Title(expand_minor(modifier_symbols(scale_name))) \o << ":", " " >> \o a_scale

(***************************************************************************)
(* What is typed at the prompt, and what the functions are called with.    *)
(***************************************************************************)
RECURSIVE Repeat(_, _)
Repeat(c, n) == IF n = 0 THEN << >> ELSE << c >> \o Repeat(c, n - 1)

major == << "m","a","j","o","r" >>
show_modes == << "s","h","o","w"," ","m","o","d","e","s" >>
exit_input == << "-","1" >>

\* '<root> [sharp |flat ]<mode>' for every root, modifier and listed mode
typed_scales ==
    { << r >> \o << " " >> \o (IF a = << >> THEN << >> ELSE a \o << " " >>) \o k :
        r \in root_letters, a \in { << >>, sharp, flat },
        k \in Keys(mode_definitions) }

\* lines with runs of spaces, two modifier words, and mode text that is,
\* holds or is not a mode
typed_words ==
    { Repeat(" ", lead) \o << r >> \o Repeat(" ", n1) \o a1 \o Repeat(" ", n2)
        \o a2 \o Repeat(" ", n3) \o m \o t :
        lead \in 0..1, r \in { "c", "h" }, n1 \in 0..MaxSpaces,
        a1 \in { << >>, sharp, flat }, n2 \in 0..MaxSpaces,
        a2 \in { << >>, sharp, flat }, n3 \in 0..1,
        m \in { << >>, major, minor, natural \o << " " >> \o minor,
                minor \o << "s" >> },
        t \in { << >>, << " " >> \o flat } }

typed_lines ==
    typed_scales \cup typed_words \cup test_fixtures \cup { show_modes, exit_input }

\* a letter with only '+' marks or only '-' marks
marked_notes(letters, most) ==
    { << l >> \o Repeat(mark, k) :
        l \in letters, mark \in { "+", "-" }, k \in 0..most }

\* a modifier of a mode definition: '+' marks, '-' marks, or None
modifiers == { None } \cup { Repeat(mark, k) : mark \in { "+", "-" }, k \in 1..MaxSemitones }

\* the lists of at most n elements of S
RECURSIVE ListsUpTo(_, _)
ListsUpTo(S, n) ==
    IF n = 0 THEN { << >> }
    ELSE LET shorter == ListsUpTo(S, n - 1)
         IN  shorter \cup { Append(p, x) : p \in { q \in shorter : Len(q) = n - 1 }, x \in S }

(***************************************************************************)
(* The program.                                                            *)
(***************************************************************************)
invalid_message ==
    << "Please enter a valid scale such as 'C Sharp Harmonic Minor', or 'F Major'" >>

Init ==
    /\ pc = "prompt"
    /\ user_input = << >>
    /\ scale_elements = False
    /\ scale = << >>
    /\ prepared_scale = << >>
    /\ output = << >>
    /\ note = << >>
    /\ modifier = None
    /\ new_note = << >>
    /\ direction = "none"
    /\ remaining = 0
    /\ calls = 0
    /\ definitions_majors = majors
    /\ definitions_mode_definitions = mode_definitions
    /\ first_results = { }

\* get_user_input: a line is read and lower-cased; '-1' ends the loop
ReadInput ==
    /\ pc = "prompt"
    /\ UNCHANGED << definitions_majors, definitions_mode_definitions, first_results >>
    /\ \E typed \in typed_lines :
          /\ user_input' = Lower(typed)
          /\ pc' = IF Lower(typed) = exit_input THEN "exit" ELSE "validate"
    /\ UNCHANGED << scale_elements, scale, prepared_scale, output,
                    note, modifier, new_note, direction, remaining, calls >>

\* get_user_input: scale_elements = validate_user_input(user_input)
Validate ==
    /\ pc = "validate"
    /\ UNCHANGED << definitions_majors, definitions_mode_definitions, first_results >>
    /\ scale_elements' = validate_user_input(user_input)
    /\ pc' = "dispatch"
    /\ UNCHANGED << user_input, scale, prepared_scale, output,
                    note, modifier, new_note, direction, remaining, calls >>

\* get_user_input: 'show modes' lists the modes
ShowModes ==
    /\ pc = "dispatch"
    /\ UNCHANGED << definitions_majors, definitions_mode_definitions, first_results >>
    /\ user_input = show_modes
    /\ output' = Join(<< " " >>, possible_modes)
    /\ pc' = "shown"
    /\ UNCHANGED << user_input, scale_elements, scale, prepared_scale,
                    note, modifier, new_note, direction, remaining, calls >>

\* get_user_input: scale = create_scale(scale_elements), which ends the
\* program when it raises
CreateScale ==
    /\ pc = "dispatch"
    /\ user_input # show_modes
    /\ scale_elements # False
    /\ IF create_scale_raises(scale_elements)
       THEN /\ pc' = "raised"
            /\ UNCHANGED << scale, prepared_scale,
                            definitions_majors, definitions_mode_definitions >>
       ELSE /\ pc' = "created"
            /\ scale' = scale_notes(scale_elements)
            /\ prepared_scale' = create_scale(scale_elements)
            /\ definitions_majors' = majors_after_create_scale(scale_elements)
            /\ definitions_mode_definitions' =
                  mode_definitions_after_create_scale(scale_elements)
    /\ UNCHANGED << user_input, scale_elements, output, first_results,
                    note, modifier, new_note, direction, remaining, calls >>

\* get_user_input: the result line is shown
ShowResult ==
    /\ pc = "created"
    /\ UNCHANGED << definitions_majors, definitions_mode_definitions, first_results >>
    /\ output' = get_user_friendly_result(prepared_scale, user_input)
    /\ pc' = "shown"
    /\ UNCHANGED << user_input, scale_elements, scale, prepared_scale,
                    note, modifier, new_note, direction, remaining, calls >>

\* get_user_input: the line was not a scale
ShowInvalid ==
    /\ pc = "dispatch"
    /\ UNCHANGED << definitions_majors, definitions_mode_definitions, first_results >>
    /\ user_input # show_modes
    /\ scale_elements = False
    /\ output' = invalid_message
    /\ pc' = "shown"
    /\ UNCHANGED << user_input, scale_elements, scale, prepared_scale,
                    note, modifier, new_note, direction, remaining, calls >>

\* modify_note(note, modifier) is called: None returns at once, '+' enters
\* raise_note's loop and '-' lower_note's
CallModifyNote ==
    /\ pc = "prompt"
    /\ UNCHANGED << definitions_majors, definitions_mode_definitions, first_results >>
    /\ \E a_note \in marked_notes(root_letters, MaxMarks), a_modifier \in modifiers :
          /\ note' = a_note
          /\ modifier' = a_modifier
          /\ new_note' = a_note
          /\ direction' = IF a_modifier = None THEN "none"
                          ELSE IF In(<< "+" >>, a_modifier) THEN "raise"
                          ELSE "lower"
          /\ remaining' = IF a_modifier = None THEN 0 ELSE Len(a_modifier)
    /\ calls' = 1
    /\ pc' = "modifying"
    /\ UNCHANGED << user_input, scale_elements, scale, prepared_scale, output >>

\* one iteration of raise_note's loop
RaiseStep ==
    /\ pc = "modifying"
    /\ UNCHANGED << definitions_majors, definitions_mode_definitions, first_results >>
    /\ direction = "raise"
    /\ remaining > 0
    /\ new_note' = raise_step(new_note)
    /\ remaining' = remaining - 1
    /\ UNCHANGED << pc, user_input, scale_elements, scale, prepared_scale, output,
                    note, modifier, direction, calls >>

\* one iteration of lower_note's loop
LowerStep ==
    /\ pc = "modifying"
    /\ UNCHANGED << definitions_majors, definitions_mode_definitions, first_results >>
    /\ direction = "lower"
    /\ remaining > 0
    /\ new_note' = lower_step(new_note)
    /\ remaining' = remaining - 1
    /\ UNCHANGED << pc, user_input, scale_elements, scale, prepared_scale, output,
                    note, modifier, direction, calls >>

\* raise_note / lower_note return the note
ReturnNote ==
    /\ pc = "modifying"
    /\ UNCHANGED << definitions_majors, definitions_mode_definitions, first_results >>
    /\ remaining = 0
    /\ pc' = "modified"
    /\ UNCHANGED << user_input, scale_elements, scale, prepared_scale, output,
                    note, modifier, new_note, direction, remaining, calls >>

\* the note that raise_note returned is passed to lower_note with the same
\* number of semitones, and the other way round
CallInverse ==
    /\ pc = "modified"
    /\ UNCHANGED << definitions_majors, definitions_mode_definitions, first_results >>
    /\ calls = 1
    /\ modifier # None
    /\ direction' = IF direction = "raise" THEN "lower" ELSE "raise"
    /\ remaining' = Len(modifier)
    /\ calls' = 2
    /\ pc' = "modifying"
    /\ UNCHANGED << user_input, scale_elements, scale, prepared_scale, output,
                    note, modifier, new_note >>

\* prep_scale_for_display(notes) is called
CallPrepScale ==
    /\ pc = "prompt"
    /\ UNCHANGED << definitions_majors, definitions_mode_definitions, first_results >>
    /\ \E notes \in ListsUpTo(marked_notes({ "a", "b" }, MaxMarks), MaxNotes) :
          /\ scale' = notes
          /\ prepared_scale' = prep_scale_for_display(notes)
    /\ pc' = "prepared"
    /\ UNCHANGED << user_input, scale_elements, output,
                    note, modifier, new_note, direction, remaining, calls >>

\* get_user_input: back to the prompt; nothing of the last request is read
\* again
NextPrompt ==
    /\ pc \in { "shown", "modified", "prepared" }
    /\ UNCHANGED << definitions_majors, definitions_mode_definitions, first_results >>
    /\ pc' = "prompt"
    /\ user_input' = << >>
    /\ scale_elements' = False
    /\ scale' = << >>
    /\ prepared_scale' = << >>
    /\ output' = << >>
    /\ note' = << >>
    /\ modifier' = None
    /\ new_note' = << >>
    /\ direction' = "none"
    /\ remaining' = 0
    /\ calls' = 0

Next ==
    \/ ReadInput
    \/ Validate
    \/ ShowModes
    \/ CreateScale
    \/ ShowResult
    \/ ShowInvalid
    \/ CallModifyNote
    \/ RaiseStep
    \/ LowerStep
    \/ ReturnNote
    \/ CallInverse
    \/ CallPrepScale
    \/ NextPrompt

Spec == Init /\ [][Next]_vars

(***************************************************************************)
(* The request loop with nothing cleared between two requests: the locals  *)
(* of get_user_input keep what the last request left in them, a few lines  *)
(* are typed again and again, and first_results records what each line     *)
(* gave the first time it was processed.                                   *)
(***************************************************************************)
repeated_lines ==
    { << "c"," " >> \o major,
      << "c"," " >> \o minor,
      << "c"," "," " >> \o sharp \o << " " >> \o major,
      << "e"," " >> \o sharp \o << " " >> \o melodic \o << " " >> \o minor,
      << "c" >> \o major,
      show_modes }

\* get_user_input: one more line is read; only user_input is assigned
ReadAgain ==
    /\ pc = "prompt"
    /\ \E typed \in repeated_lines : user_input' = Lower(typed)
    /\ pc' = "validate"
    /\ UNCHANGED << scale_elements, scale, prepared_scale, output,
                    note, modifier, new_note, direction, remaining, calls,
                    definitions_majors, definitions_mode_definitions, first_results >>

\* what the request that was just shown gave
result_shown ==
    [ line |-> user_input,
      elements |-> scale_elements,
      prepared |-> IF scale_elements # False THEN prepared_scale ELSE << >>,
      shown |-> output ]

\* get_user_input: back to the prompt with every local as it is; the result
\* of a line processed for the first time is recorded
PromptAgain ==
    /\ pc = "shown"
    /\ pc' = "prompt"
    /\ first_results' =
          IF \E first \in first_results : first.line = user_input
          THEN first_results
          ELSE first_results \cup { result_shown }
    /\ UNCHANGED << user_input, scale_elements, scale, prepared_scale, output,
                    note, modifier, new_note, direction, remaining, calls,
                    definitions_majors, definitions_mode_definitions >>

NextRepeat ==
    \/ ReadAgain
    \/ Validate
    \/ ShowModes
    \/ CreateScale
    \/ ShowResult
    \/ ShowInvalid
    \/ PromptAgain

SpecRepeat == Init /\ [][NextRepeat]_vars

(***************************************************************************)
(* The vocabulary of the properties: what a typed line says, read off the  *)
(* line itself.                                                            *)
(***************************************************************************)
\* the line with its runs of whitespace collapsed
typed_text == Join(<< " " >>, Split(user_input))

\* the line starts with a letter a-g followed by a space
starts_with_root ==
    /\ Len(typed_text) >= 2
    /\ typed_text[1] \in root_letters
    /\ typed_text[2] = " "

\* the text after the root and its space
typed_remainder == SliceFrom(typed_text, 2)

\* the modifier the remainder starts with, as the symbol of the request
typed_modifier ==
    IF ReMatch(sharp, typed_remainder) THEN << "+" >>
    ELSE IF ReMatch(flat, typed_remainder) THEN << "-" >>
    ELSE << >>

\* the remainder with a leading 'sharp' or 'flat' removed, trimmed
typed_mode ==
    Strip(IF ReMatch(sharp, typed_remainder) THEN SliceFrom(typed_remainder, Len(sharp))
          ELSE IF ReMatch(flat, typed_remainder) THEN SliceFrom(typed_remainder, Len(flat))
          ELSE typed_remainder)

\* the mode text holds 'minor' and none of 'harmonic', 'melodic', 'natural'
bare_minor(mode) ==
    /\ In(minor, mode)
    /\ \A word \in { harmonic, melodic, natural } : ~In(word, mode)

\* the extracted mode text: typed_mode with the minor default applied
extracted_mode == IF bare_minor(typed_mode) THEN harmonic_minor ELSE typed_mode

\* at most one 'sharp', at most one 'flat', and no 'sharp flat' or 'flat sharp'
single_modifier ==
    /\ Count(typed_text, sharp) <= 1
    /\ Count(typed_text, flat) <= 1
    /\ ~In(sharp \o << " " >> \o flat, typed_text)
    /\ ~In(flat \o << " " >> \o sharp, typed_text)

\* validate_user_input has returned, and returned a request
validated == pc = "dispatch"
accepted == validated /\ scale_elements # False

(***************************************************************************)
(* C1                                                                      *)
(***************************************************************************)
\* C1, as stated: validate_user_input returns a request exactly when the
\* collapsed line starts with a root letter and a space and its extracted
\* mode text is a key of the mode definitions, and False otherwise.
C1_AcceptsIffModeIsKey ==
    validated =>
        (scale_elements # False
            <=> (starts_with_root /\ extracted_mode \in Keys(mode_definitions)))

\* C1, amended: validate_user_input returns [root, modifier, mode] exactly
\* when the collapsed line starts with a root letter and a space, holds at
\* most one 'sharp', at most one 'flat' and neither 'sharp flat' nor
\* 'flat sharp', and its extracted mode text is a key of the mode
\* definitions; the request is then the root letter, the modifier symbol and
\* the extracted mode text; in every other case it returns False.
C1_AcceptsIffSingleModifierAndModeIsKey ==
    validated =>
        IF starts_with_root /\ single_modifier
           /\ extracted_mode \in Keys(mode_definitions)
        THEN scale_elements = << << typed_text[1] >>, typed_modifier, extracted_mode >>
        ELSE scale_elements = False

\* a line with runs of spaces and a modifier word was accepted
C1_Witness ==
    /\ accepted
    /\ user_input # typed_text
    /\ scale_elements[2] = << "+" >>
    /\ scale_elements[3] = major

(***************************************************************************)
(* C2                                                                      *)
(***************************************************************************)
\* C2: a line that carries more than one modifier word ('sharp' twice,
\* 'flat' twice, or both, apart or written together) is rejected, whatever
\* mode text follows.
C2_RejectsSeveralModifiers ==
    (validated /\ Count(user_input, sharp) + Count(user_input, flat) > 1)
        => scale_elements = False

(***************************************************************************)
(* C3                                                                      *)
(***************************************************************************)
\* C3: for every root, every modifier word and every key k of the mode
\* definitions, the line '<root> [sharp |flat ]<k>' is accepted and yields
\* exactly [root, '' | '+' | '-', k].
C3_ListedModeYieldsItself ==
    (validated /\ user_input \in typed_scales) =>
        \A r \in root_letters, k \in Keys(mode_definitions) :
            /\ user_input = << r, " " >> \o k
                  => scale_elements = << << r >>, << >>, k >>
            /\ user_input = << r, " " >> \o sharp \o << " " >> \o k
                  => scale_elements = << << r >>, << "+" >>, k >>
            /\ user_input = << r, " " >> \o flat \o << " " >> \o k
                  => scale_elements = << << r >>, << "-" >>, k >>

C5_CreateScaleNeverRaises ==
    /\ pc # "raised"
    /\ accepted => ~create_scale_raises(scale_elements)
    /\ pc = "created" => prepared_scale # << >>

\* the scale of a request on a sharpened root with two semitones below it
\* was built
C5_Witness ==
    /\ pc = "created"
    /\ scale_elements = << << "e" >>, << "+" >>, melodic \o << " " >> \o minor >>
    /\ Len(prepared_scale) > 0

(***************************************************************************)
(* C6                                                                      *)
(***************************************************************************)
\* C6: the scale create_scale builds is, for each (degree, delta) entry of
\* the mode definition in table order, the note at position degree-1 of the
\* major scale of the requested root modified by delta, followed by one copy
\* of the first derived note: one note more than the entries, the last equal
\* to the first.
C6_ScaleIsDerivedFromMajor ==
    pc = "created" =>
        LET definition == Get(mode_definitions, scale_elements[3])
            major_scale == Get(majors, scale_elements[1] \o scale_elements[2])
        IN  /\ Len(scale) = Len(definition) + 1
            /\ \A k \in 1..Len(definition) :
                  scale[k] = modify_note(major_scale[IndexOf(definition[k][1], digits) - 1],
                                         Tail(definition[k]))
            /\ scale[Len(scale)] = scale[1]

\* A sharp harmonic minor was built, with its double sharp
C6_Witness ==
    /\ pc = "created"
    /\ scale_elements = << << "a" >>, << "+" >>, harmonic_minor >>
    /\ Len(scale) = 8
    /\ scale[7] = << "g", "+", "+" >>

(***************************************************************************)
(* C7                                                                      *)
(***************************************************************************)
\* a letter followed by only '+' marks or only '-' marks
well_marked(a_note) ==
    /\ Len(a_note) >= 1
    /\ a_note[1] \in root_letters
    /\ \/ \A i \in 2..Len(a_note) : a_note[i] = "+"
       \/ \A i \in 2..Len(a_note) : a_note[i] = "-"

\* a note as it is shown: the letter in upper case, then one 'b' for each
\* '-' mark or one '#' for each '+' mark
shown_note(a_note) ==
    << UpperChar(a_note[1]) >>
        \o Repeat(IF In(<< "-" >>, a_note) THEN "b" ELSE "#", Len(a_note) - 1)

RECURSIVE shown_notes(_)
shown_notes(notes) ==
    IF notes = << >> THEN << >>
    ELSE << shown_note(Head(notes)) >> \o shown_notes(Tail(notes))

\* C7: prep_scale_for_display turns a list of notes into their shown forms,
\* in the order of the list, joined by ', ' with no separator before or
\* after; formatting the list again gives the same string.
C7_PreparedScaleIsJoinedNotes ==
    (pc \in { "created", "prepared" } /\ \A i \in 1..Len(scale) : well_marked(scale[i])) =>
        /\ prepared_scale = Join(<< ",", " " >>, shown_notes(scale))
        /\ prep_scale_for_display(scale) = prepared_scale

\* a list with a doubly flattened b and a sharpened a was formatted
C7_Witness ==
    /\ pc = "prepared"
    /\ scale = << << "b", "-", "-" >>, << "a", "+" >> >>
    /\ prepared_scale = << "B", "b", "b", ",", " ", "A", "#" >>

(***************************************************************************)
(* C8                                                                      *)
(***************************************************************************)
\* C8: for every accepted line the result line is '<Title>: <scale>', where
\* Title is the root letter in upper case, then '#' or 'b' when the request
\* is sharp or flat, a space, and the title-cased mode of the request.
C8_TitleNamesTheRequest ==
    (pc = "shown" /\ scale_elements # False) =>
        output = << UpperChar(scale_elements[1][1]) >>
                 \o (IF scale_elements[2] = << "+" >> THEN << "#" >>
                     ELSE IF scale_elements[2] = << "-" >> THEN << "b" >>
                     ELSE << >>)
                 \o << " " >> \o Title(scale_elements[3])
                 \o << ":", " " >> \o prepared_scale

(***************************************************************************)
(* C9                                                                      *)
(***************************************************************************)
\* every note of the major scales is a letter with only '+' or only '-' marks
majors_well_marked ==
    \A i \in 1..Len(majors) : \A j \in 1..Len(majors[i][2]) :
        well_marked(majors[i][2][j])

\* C9: given major scales of such notes, the note raise_note and lower_note
\* hold after every iteration, and every note of every scale create_scale
\* builds, is a letter followed by only '+' marks or only '-' marks.
C9_NotesNeverMixMarks ==
    majors_well_marked =>
        /\ pc \in { "modifying", "modified" } => well_marked(new_note)
        /\ pc = "created" => \A i \in 1..Len(scale) : well_marked(scale[i])

\* g+ lowered by three semitones has passed g and holds one '-'
C9_Witness ==
    /\ pc = "modifying"
    /\ note = << "g", "+" >>
    /\ modifier = << "-", "-", "-" >>
    /\ remaining = 1
    /\ new_note = << "g", "-" >>

(***************************************************************************)
(* C10                                                                     *)
(***************************************************************************)
\* C10: for a note with any number of '+' marks or of '-' marks and any
\* n >= 1, lower_note(raise_note(note, n), n) = note and
\* raise_note(lower_note(note, n), n) = note.
C10_RaiseAndLowerAreInverses ==
    (pc = "modified" /\ calls = 2) => new_note = note

\* a-- was raised by three semitones, past a, and lowered again
C10_Witness ==
    /\ pc = "modified"
    /\ calls = 2
    /\ note = << "a", "-", "-" >>
    /\ modifier = << "+", "+", "+" >>
    /\ new_note = note

(***************************************************************************)
(* C11                                                                     *)
(***************************************************************************)
\* a note read as a signed offset: its '+' marks, or minus its '-' marks
offset_of(a_note) == Count(a_note, << "+" >>) - Count(a_note, << "-" >>)

\* a modifier read as a signed offset
delta_of(a_modifier) ==
    IF In(<< "+" >>, a_modifier) THEN Len(a_modifier) ELSE 0 - Len(a_modifier)

\* the string of (letter, k): k '+' marks, or -k '-' marks
canonical_note(letter, k) ==
    << letter >> \o (IF k >= 0 THEN Repeat("+", k) ELSE Repeat("-", 0 - k))

\* C11: modify_note(note, delta) returns the canonical string of
\* (letter, k + d), where k is the note's signed offset and d the delta's,
\* for every letter, k and delta, the deltas that cross zero included; a
\* None delta returns the note unchanged.
C11_ModifyNoteIsSignedArithmetic ==
    (pc = "modified" /\ calls = 1) =>
        LET expected ==
                IF modifier = None THEN note
                ELSE canonical_note(note[1], offset_of(note) + delta_of(modifier))
        IN  /\ new_note = expected
            /\ modify_note(note, modifier) = expected

\* g+ with '---' gave g--
C11_Witness ==
    /\ pc = "modified"
    /\ calls = 1
    /\ note = << "g", "+" >>
    /\ modifier = << "-", "-", "-" >>
    /\ new_note = << "g", "-", "-" >>

(***************************************************************************)
(* C12                                                                     *)
(***************************************************************************)
\* C12: after any sequence of requests the major scales and the mode
\* definitions are as they were loaded, and a request gives what the same
\* request gave the first time it was processed: the same elements, the same
\* scale and the same line shown.
C12_RequestsAreIndependent ==
    /\ definitions_majors = majors
    /\ definitions_mode_definitions = mode_definitions
    /\ \A first \in first_results :
          user_input = first.line =>
              /\ pc \in { "dispatch", "created", "shown" }
                    => scale_elements = first.elements
              /\ (pc \in { "created", "shown" } /\ scale_elements # False)
                    => prepared_scale = first.prepared
              /\ pc = "shown" => output = first.shown

\* 'c major' is shown again after 'c minor' was processed, and gives what it
\* gave the first time
C12_Witness ==
    /\ pc = "shown"
    /\ user_input = << "c"," " >> \o major
    /\ \E first \in first_results :
          /\ first.line = user_input
          /\ first.shown = output
          /\ first.elements = scale_elements
    /\ \E other \in first_results : other.line = << "c"," " >> \o minor

====
